---- MODULE Spec2Model ----
(***************************************************************************)
(* Entry::from_xml of the atom crate (src/entry.rs): the streaming decoder *)
(* of an Atom entry.  The decoder pulls events from a shared reader and    *)
(* dispatches on the names of the entry's child elements.                  *)
(*                                                                         *)
(* A String is a sequence of symbols (<<>> is the empty string, \o is      *)
(* concatenation).  An Option<T> is a sequence of length 0 (None) or 1     *)
(* (Some).  The reader is an event sequence with a cursor; reading past    *)
(* the last event yields Eof.                                              *)
(***************************************************************************)
EXTENDS Integers, Sequences, FiniteSets, TLC

VARIABLES doc, variant, stream, pos, entry, status, ret, iters, obj, calls

vars == <<doc, variant, stream, pos, entry, status, ret, iters, obj, calls>>

\* The largest number of direct children of a generated entry document.
MaxChildren == 2

\* The largest number of setter calls made on one Entry.
MaxSetterCalls == 3

None == <<>>
Some(v) == <<v>>
EmptyString == <<>>
unwrap_or_default(o) == IF o = None THEN EmptyString ELSE o[1]

(***************************************************************************)
(* Events of the tokenizer.                                                *)
(***************************************************************************)
NoAttrs == <<>>
Attr(k, v) == [key |-> k, value |-> v]
StartEv(n, as) == [kind |-> "Start", name |-> n, attrs |-> as, text |-> EmptyString]
EndEv(n) == [kind |-> "End", name |-> n, attrs |-> NoAttrs, text |-> EmptyString]
TextEv(t) == [kind |-> "Text", name |-> "", attrs |-> NoAttrs, text |-> t]
CommentEv == [kind |-> "Comment", name |-> "", attrs |-> NoAttrs, text |-> EmptyString]
PIEv == [kind |-> "PI", name |-> "", attrs |-> NoAttrs, text |-> EmptyString]
EofEv == [kind |-> "Eof", name |-> "", attrs |-> NoAttrs, text |-> EmptyString]
ErrEv == [kind |-> "Err", name |-> "", attrs |-> NoAttrs, text |-> EmptyString]

\* reader.read_event: the event under the cursor; Eof once the input is used up.
read_event(s, p) == IF p > Len(s) THEN EofEv ELSE s[p]

\* The cursor after read_event: one event further, staying put at end of input.
advance(s, p) == IF p > Len(s) THEN p ELSE p + 1

\* The last value of attribute k, if any.
attr_opt(as, k) ==
    LET idx == {i \in 1..Len(as) : as[i].key = k}
    IN IF idx = {} THEN None
       ELSE Some(as[CHOOSE i \in idx : \A j \in idx : j <= i].value)

\* What a primitive or sub-decoder hands back: res is "Ok", "Eof" or "Xml",
\* val its value when Ok, pos the cursor it leaves.
Result(r, v, p) == [res |-> r, val |-> v, pos |-> p]

(***************************************************************************)
(* Text Extractor (util::atom_text).                                       *)
(***************************************************************************)
RECURSIVE atom_text_loop(_, _, _, _)
atom_text_loop(s, p, acc, depth) ==
    LET e == read_event(s, p)
        q == advance(s, p)
    IN CASE e.kind = "Eof" -> Result("Eof", None, q)
         [] e.kind = "Err" -> Result("Xml", None, q)
         [] e.kind = "Text" -> atom_text_loop(s, q, acc \o e.text, depth)
         [] e.kind = "Start" -> atom_text_loop(s, q, acc, depth + 1)
         [] e.kind = "End" ->
              IF depth = 0
              THEN Result("Ok", IF acc = EmptyString THEN None ELSE Some(acc), q)
              ELSE atom_text_loop(s, q, acc, depth - 1)
         [] OTHER -> atom_text_loop(s, q, acc, depth)

atom_text(s, p) == atom_text_loop(s, p, EmptyString, 0)

(***************************************************************************)
(* Element Skipper (Reader::read_to_end).                                  *)
(***************************************************************************)
RECURSIVE read_to_end_loop(_, _, _, _)
read_to_end_loop(s, p, name, depth) ==
    LET e == read_event(s, p)
        q == advance(s, p)
    IN CASE e.kind = "Eof" -> Result("Eof", None, q)
         [] e.kind = "Err" -> Result("Xml", None, q)
         [] e.kind = "End" /\ e.name = name ->
              IF depth = 0 THEN Result("Ok", None, q)
              ELSE read_to_end_loop(s, q, name, depth - 1)
         [] e.kind = "Start" /\ e.name = name -> read_to_end_loop(s, q, name, depth + 1)
         [] OTHER -> read_to_end_loop(s, q, name, depth)

read_to_end(s, p, name) == read_to_end_loop(s, p, name, 0)

(***************************************************************************)
(* Leaf entity decoders (Person, Category, Link, Content).                 *)
(***************************************************************************)
PersonDefault == [name |-> EmptyString, uri |-> None, email |-> None]

RECURSIVE Person_loop(_, _, _)
Person_loop(s, p, person) ==
    LET e == read_event(s, p)
        q == advance(s, p)
    IN CASE e.kind = "Eof" -> Result("Eof", None, q)
         [] e.kind = "Err" -> Result("Xml", None, q)
         [] e.kind = "End" -> Result("Ok", person, q)
         [] e.kind = "Start" /\ e.name \in {"name", "uri", "email"} ->
              LET r == atom_text(s, q)
              IN IF r.res # "Ok" THEN r
                 ELSE Person_loop(s, r.pos,
                        IF e.name = "name"
                        THEN [person EXCEPT !.name = unwrap_or_default(r.val)]
                        ELSE [person EXCEPT ![e.name] = r.val])
         [] e.kind = "Start" /\ e.name \notin {"name", "uri", "email"} ->
              LET r == read_to_end(s, q, e.name)
              IN IF r.res # "Ok" THEN r ELSE Person_loop(s, r.pos, person)
         [] OTHER -> Person_loop(s, q, person)

Person_from_xml(s, p, as) == Person_loop(s, p, PersonDefault)

Category_from_xml(s, p, as) ==
    LET r == read_to_end(s, p, "category")
    IN IF r.res # "Ok" THEN r
       ELSE Result("Ok", [term |-> unwrap_or_default(attr_opt(as, "term")),
                          scheme |-> attr_opt(as, "scheme"),
                          label |-> attr_opt(as, "label")], r.pos)

Link_from_xml(s, p, as) ==
    LET r == read_to_end(s, p, "link")
    IN IF r.res # "Ok" THEN r
       ELSE Result("Ok", [href |-> unwrap_or_default(attr_opt(as, "href")),
                          rel |-> attr_opt(as, "rel"),
                          mime_type |-> attr_opt(as, "type"),
                          hreflang |-> attr_opt(as, "hreflang"),
                          title |-> attr_opt(as, "title"),
                          length |-> attr_opt(as, "length")], r.pos)

\* Content is one of three shapes, chosen from the attributes of its start tag:
\* an out-of-line reference (src), inline text, or inline escaped markup.
Content_from_xml(s, p, as) ==
    LET src == attr_opt(as, "src")
        ty == attr_opt(as, "type")
    IN IF src # None
       THEN LET r == read_to_end(s, p, "content")
            IN IF r.res # "Ok" THEN r
               ELSE Result("Ok", [shape |-> "reference", content_type |-> ty,
                                  src |-> src, value |-> None], r.pos)
       ELSE LET r == atom_text(s, p)
            IN IF r.res # "Ok" THEN r
               ELSE Result("Ok", [shape |-> IF ty = None \/ ty = Some(<<"text">>)
                                            THEN "text" ELSE "escaped",
                                  content_type |-> ty, src |-> None,
                                  value |-> r.val], r.pos)

(***************************************************************************)
(* Source: the composite decoder of the metadata of the feed an entry was  *)
(* copied from.                                                            *)
(***************************************************************************)
SourceDefault ==
    [title |-> EmptyString, id |-> EmptyString, updated |-> EmptyString,
     authors |-> <<>>, categories |-> <<>>, contributors |-> <<>>, links |-> <<>>,
     rights |-> None]

\* The sub-decoder of a repeatable child, by element name.
list_decoder(s, p, name, as) ==
    CASE name = "author" -> Person_from_xml(s, p, as)
      [] name = "contributor" -> Person_from_xml(s, p, as)
      [] name = "category" -> Category_from_xml(s, p, as)
      [] name = "link" -> Link_from_xml(s, p, as)

\* The list field a repeatable child is appended to.
list_field(name) ==
    CASE name = "author" -> "authors"
      [] name = "contributor" -> "contributors"
      [] name = "category" -> "categories"
      [] name = "link" -> "links"

RECURSIVE Source_loop(_, _, _)
Source_loop(s, p, source) ==
    LET e == read_event(s, p)
        q == advance(s, p)
    IN CASE e.kind = "Eof" -> Result("Eof", None, q)
         [] e.kind = "Err" -> Result("Xml", None, q)
         [] e.kind = "End" -> Result("Ok", source, q)
         [] e.kind = "Start" /\ e.name \in {"id", "title", "updated"} ->
              LET r == atom_text(s, q)
              IN IF r.res # "Ok" THEN r
                 ELSE Source_loop(s, r.pos,
                        [source EXCEPT ![e.name] = unwrap_or_default(r.val)])
         [] e.kind = "Start" /\ e.name = "rights" ->
              LET r == atom_text(s, q)
              IN IF r.res # "Ok" THEN r
                 ELSE Source_loop(s, r.pos, [source EXCEPT !.rights = r.val])
         [] e.kind = "Start" /\ e.name \in {"author", "contributor", "category", "link"} ->
              LET r == list_decoder(s, q, e.name, e.attrs)
              IN IF r.res # "Ok" THEN r
                 ELSE Source_loop(s, r.pos,
                        [source EXCEPT ![list_field(e.name)] = Append(@, r.val)])
         [] e.kind = "Start" ->
              LET r == read_to_end(s, q, e.name)
              IN IF r.res # "Ok" THEN r ELSE Source_loop(s, r.pos, source)
         [] OTHER -> Source_loop(s, q, source)

Source_from_xml(s, p, as) == Source_loop(s, p, SourceDefault)

(***************************************************************************)
(* Input documents.  An entry document is a sequence of child fragments;   *)
(* the tokenizer turns it into the event stream the decoder reads.  A      *)
(* fragment is a child element (with the value its decoder should yield)   *)
(* or character data / a comment between children.                         *)
(***************************************************************************)
Str(x) == <<x>>

TextElement(n, chunks) ==
    <<StartEv(n, NoAttrs)>> \o [i \in 1..Len(chunks) |-> TextEv(chunks[i])] \o <<EndEv(n)>>

Element(n, as, body) == <<StartEv(n, as)>> \o body \o <<EndEv(n)>>

Fragment(n, evs, v) == [name |-> n, events |-> evs, value |-> v]

FragOf(id) ==
    CASE id = "title_T" -> Fragment("title", TextElement("title", <<Str("T")>>), Str("T"))
      [] id = "title_AB" ->
           Fragment("title", TextElement("title", <<Str("A"), Str("B")>>), <<"A", "B">>)
      [] id = "title_0" -> Fragment("title", TextElement("title", <<>>), EmptyString)
      [] id = "id_U" -> Fragment("id", TextElement("id", <<Str("U")>>), Str("U"))
      [] id = "id_0" -> Fragment("id", TextElement("id", <<>>), EmptyString)
      [] id = "updated_D" ->
           Fragment("updated", TextElement("updated", <<Str("2024-01-01T00:00:00Z")>>),
                    Str("2024-01-01T00:00:00Z"))
      [] id = "updated_E" ->
           Fragment("updated", TextElement("updated", <<Str("E")>>), Str("E"))
      [] id = "author_A" ->
           Fragment("author", Element("author", NoAttrs, TextElement("name", <<Str("A")>>)),
                    [name |-> Str("A"), uri |-> None, email |-> None])
      [] id = "author_B" ->
           Fragment("author",
                    Element("author", NoAttrs,
                            TextElement("name", <<Str("B")>>)
                            \o Element("ext", NoAttrs, TextElement("name", <<Str("Z")>>))
                            \o TextElement("email", <<Str("b@"), Str("x")>>)),
                    [name |-> Str("B"), uri |-> None, email |-> Some(<<"b@", "x">>)])
      [] id = "contributor_C" ->
           Fragment("contributor",
                    Element("contributor", NoAttrs,
                            TextElement("uri", <<Str("c")>>)
                            \o TextElement("name", <<Str("C")>>)),
                    [name |-> Str("C"), uri |-> Some(Str("c")), email |-> None])
      [] id = "category_x" ->
           Fragment("category", Element("category", <<Attr("term", Str("x"))>>, <<>>),
                    [term |-> Str("x"), scheme |-> None, label |-> None])
      [] id = "category_y" ->
           Fragment("category",
                    Element("category",
                            <<Attr("term", Str("y")), Attr("label", Str("Y"))>>,
                            <<TextEv(Str("body"))>>),
                    [term |-> Str("y"), scheme |-> None, label |-> Some(Str("Y"))])
      [] id = "link_h" ->
           Fragment("link", Element("link", <<Attr("href", Str("h"))>>, <<>>),
                    [href |-> Str("h"), rel |-> None, mime_type |-> None,
                     hreflang |-> None, title |-> None, length |-> None])
      [] id = "link_g" ->
           Fragment("link",
                    Element("link", <<Attr("rel", Str("self")), Attr("href", Str("g"))>>,
                            <<>>),
                    [href |-> Str("g"), rel |-> Some(Str("self")), mime_type |-> None,
                     hreflang |-> None, title |-> None, length |-> None])
      [] id = "published_P" ->
           Fragment("published",
                    TextElement("published", <<Str("2023-12-31T00:00:00Z")>>),
                    Str("2023-12-31T00:00:00Z"))
      [] id = "published_Q" ->
           Fragment("published", TextElement("published", <<Str("Q")>>), Str("Q"))
      [] id = "summary_S" ->
           Fragment("summary", TextElement("summary", <<Str("S")>>), Str("S"))
      [] id = "summary_V" ->
           Fragment("summary", TextElement("summary", <<Str("V"), Str("W")>>),
                    <<"V", "W">>)
      [] id = "summary_0" -> Fragment("summary", TextElement("summary", <<>>), EmptyString)
      [] id = "rights_R" ->
           Fragment("rights", TextElement("rights", <<Str("R")>>), Str("R"))
      [] id = "rights_X" ->
           Fragment("rights", TextElement("rights", <<Str("X")>>), Str("X"))
      [] id = "source_s" ->
           Fragment("source",
                    Element("source", NoAttrs,
                            TextElement("id", <<Str("I")>>)
                            \o Element("author", NoAttrs, TextElement("name", <<Str("A")>>))
                            \o Element("generator", NoAttrs, <<TextEv(Str("g"))>>)
                            \o TextElement("rights", <<Str("R")>>)),
                    [title |-> EmptyString, id |-> Str("I"), updated |-> EmptyString,
                     authors |-> <<[name |-> Str("A"), uri |-> None, email |-> None]>>,
                     categories |-> <<>>, contributors |-> <<>>, links |-> <<>>,
                     rights |-> Some(Str("R"))])
      [] id = "source_t" ->
           Fragment("source",
                    Element("source", NoAttrs, TextElement("title", <<Str("V")>>)),
                    [title |-> Str("V"), id |-> EmptyString, updated |-> EmptyString,
                     authors |-> <<>>, categories |-> <<>>, contributors |-> <<>>,
                     links |-> <<>>, rights |-> None])
      [] id = "source_0" ->
           Fragment("source", Element("source", NoAttrs, <<>>),
                    [title |-> EmptyString, id |-> EmptyString, updated |-> EmptyString,
                     authors |-> <<>>, categories |-> <<>>, contributors |-> <<>>,
                     links |-> <<>>, rights |-> None])
      [] id = "content_0" ->
           Fragment("content", Element("content", NoAttrs, <<>>),
                    [shape |-> "text", content_type |-> None, src |-> None,
                     value |-> None])
      [] id = "content_text" ->
           Fragment("content",
                    Element("content", <<Attr("type", Str("text"))>>, <<TextEv(Str("C"))>>),
                    [shape |-> "text", content_type |-> Some(Str("text")), src |-> None,
                     value |-> Some(Str("C"))])
      [] id = "content_src" ->
           Fragment("content",
                    Element("content",
                            <<Attr("src", Str("http://example.com/a")),
                              Attr("type", Str("text/html"))>>, <<>>),
                    [shape |-> "reference", content_type |-> Some(Str("text/html")),
                     src |-> Some(Str("http://example.com/a")), value |-> None])
      [] id = "unknown_deep" ->
           Fragment("unknownTag",
                    Element("unknownTag", NoAttrs, Element("deep", NoAttrs, <<>>)), None)
      [] id = "unknown_nested" ->
           Fragment("foo",
                    Element("foo", NoAttrs,
                            Element("foo", NoAttrs, TextElement("title", <<Str("X")>>))
                            \o Element("author", NoAttrs, TextElement("name", <<Str("N")>>))),
                    None)
      [] id = "unknown_text" ->
           Fragment("bar", Element("bar", NoAttrs, <<TextEv(Str("t")), CommentEv>>), None)
      [] id = "text" -> Fragment("", <<TextEv(Str(" "))>>, None)
      [] id = "comment" -> Fragment("", <<CommentEv>>, None)
      [] id = "stray_end" -> Fragment("", <<EndEv("bogus")>>, None)
      [] id = "noise_run" ->
           Fragment("", <<CommentEv, TextEv(Str("stray")), PIEv, TextEv(Str(" "))>>, None)

FragIds ==
    {"title_T", "title_AB", "title_0", "id_U", "id_0", "updated_D", "updated_E",
     "author_A", "author_B", "contributor_C", "category_x", "category_y",
     "link_h", "link_g", "published_P", "published_Q", "summary_S", "summary_V",
     "rights_R", "rights_X", "source_s", "source_t", "content_text", "content_src",
     "summary_0", "source_0", "content_0",
     "unknown_deep", "unknown_nested", "unknown_text", "text", "comment", "noise_run",
     "stray_end"}

Fragments == [id \in FragIds |-> FragOf(id)]

Frag(id) == Fragments[id]

\* The fragments of documents decoded as they are.
Catalog ==
    {"title_T", "title_AB", "title_0", "id_U", "updated_E",
     "author_A", "author_B", "contributor_C", "category_x", "category_y",
     "link_g", "published_P", "published_Q", "summary_S", "summary_0",
     "rights_R", "rights_X", "source_s", "source_t", "source_0",
     "content_text", "content_src", "content_0", "unknown_nested", "comment"}

\* The fragments of documents that are also decoded damaged or with an insertion:
\* one of each kind of child.
CoreCatalog ==
    {"title_AB", "author_B", "category_y", "published_P", "source_s", "content_src",
     "unknown_nested", "text"}

\* The unknown elements inserted between children.
Unknowns == {"unknown_deep", "unknown_nested", "unknown_text"}

\* The character data, comments and processing instructions inserted between
\* children.
Noise == {"text", "comment", "noise_run"}

DocsOver(cat) == UNION {[1..n -> cat] : n \in 0..MaxChildren}

RECURSIVE Body(_)
Body(d) == IF d = <<>> THEN <<>> ELSE Frag(Head(d)).events \o Body(Tail(d))

\* The events of the entry element of document d, from its start tag to its end
\* tag, followed by the start tag of the next entry of the feed.
Tokenize(d) ==
    <<StartEv("entry", NoAttrs)>> \o Body(d)
    \o <<EndEv("entry"), StartEv("entry", NoAttrs)>>

\* The place in Tokenize(d) of the entry's own end tag.
OwnEnd(d) == Len(Body(d)) + 2

\* The place in Tokenize(d) of the first event of child j (of the own end tag
\* for j past the last child).
ChildStart(d, j) == Len(Body(SubSeq(d, 1, j - 1))) + 2

\* Document d with fragment id put after its first at children.
InsertChild(d, at, id) == SubSeq(d, 1, at) \o <<id>> \o SubSeq(d, at + 1, Len(d))

\* Attributes on the entry's own start tag, none of them known to the format.
OwnAttrSets(what) ==
    CASE what = "lang" -> <<Attr("xml:lang", Str("en"))>>
      [] what = "title_lang" -> <<Attr("title", Str("Z")), Attr("xml:lang", Str("en"))>>

Variant(k, at, what) == [kind |-> k, at |-> at, what |-> what]

\* The second stream of a behaviour: the document again, the document with an
\* unknown element or with events that are no tags inserted, the document cut
\* short before event at, the document with a tokenizer error in place of
\* event at, the document with attributes on the entry's start tag, or the
\* document with an end tag of another name put between its children.
VariantStream(d, v) ==
    CASE v.kind = "same" -> Tokenize(d)
      [] v.kind = "insert" -> Tokenize(InsertChild(d, v.at, v.what))
      [] v.kind = "noise" -> Tokenize(InsertChild(d, v.at, v.what))
      [] v.kind = "stray" -> Tokenize(InsertChild(d, v.at, "stray_end"))
      [] v.kind = "attrs" ->
           [Tokenize(d) EXCEPT ![1] = StartEv("entry", OwnAttrSets(v.what))]
      [] v.kind = "trunc" -> SubSeq(Tokenize(d), 1, v.at - 1)
      [] v.kind = "error" -> [Tokenize(d) EXCEPT ![v.at] = ErrEv]

DamagedVariants(d) ==
    {Variant("insert", at, u) : at \in 0..Len(d), u \in Unknowns}
    \cup {Variant("noise", at, u) : at \in 0..Len(d), u \in Noise}
    \cup {Variant("attrs", 0, a) : a \in {"lang", "title_lang"}}
    \cup {Variant("stray", at, "") : at \in 0..Len(d)}
    \cup {Variant(k, at, "") : k \in {"trunc", "error"}, at \in 2..OwnEnd(d)}

(***************************************************************************)
(* Entry::from_xml.  Two calls are made one after the other, each on its   *)
(* own reader: call 1 on the document, call 2 on its variant.  status is   *)
(* "running" inside the loop, then "Ok" or the failure returned; ret is    *)
(* the Entry handed back (None while running and on failure); iters counts  *)
(* the iterations of the loop.                                             *)
(***************************************************************************)
Calls == {1, 2}

EntryDefault ==
    [title |-> EmptyString, id |-> EmptyString, updated |-> EmptyString,
     authors |-> <<>>, categories |-> <<>>, contributors |-> <<>>, links |-> <<>>,
     published |-> None, source |-> None, summary |-> None, rights |-> None,
     content |-> None]

TextFields == {"id", "title", "updated"}
ListFields == {"author", "category", "contributor", "link"}
OptTextFields == {"published", "summary", "rights"}
OptEntityFields == {"source", "content"}
DispatchTable == TextFields \cup ListFields \cup OptTextFields \cup OptEntityFields

\* The scenario of the specification's testable properties.
ScenarioDoc ==
    <<"title_T", "id_U", "updated_D", "author_A", "category_x", "unknown_deep",
      "published_P">>

Start(d, v) ==
    /\ doc = d
    /\ variant = v
    /\ stream = <<Tokenize(d), VariantStream(d, v)>>
    /\ pos = <<2, 2>>
    /\ entry = <<EntryDefault, EntryDefault>>
    /\ status = <<"running", "running">>
    /\ ret = <<None, None>>
    /\ iters = <<0, 0>>
    /\ obj = EntryDefault
    /\ calls = <<>>

Init ==
    \/ \E d \in DocsOver(Catalog) \cup {ScenarioDoc} : Start(d, Variant("same", 0, ""))
    \/ \E d \in DocsOver(CoreCatalog) \cup {ScenarioDoc} :
         \E v \in DamagedVariants(d) : Start(d, v)

\* Call i is in its loop, and the call before it has returned.
Active(i) == status[i] = "running" /\ \A j \in Calls : j < i => status[j] # "running"

\* reader.read_event(&mut buf) at the head of the loop, and the cursor after it.
Event(i) == read_event(stream[i], pos[i])
After(i) == advance(stream[i], pos[i])

\* The Attributes argument of from_xml: those of the entry's own start tag, the
\* event the caller read last.
OwnAttrs(i) == stream[i][1].attrs

\* One more iteration of the loop of call i.
Iterate(i) == iters' = [iters EXCEPT ![i] = @ + 1]

\* The loop goes round with the entry as updated and the cursor at p.
Continue(i, e, p) ==
    /\ entry' = [entry EXCEPT ![i] = e]
    /\ pos' = [pos EXCEPT ![i] = p]
    /\ Iterate(i)
    /\ UNCHANGED <<doc, variant, stream, status, ret, obj, calls>>

\* The ? operator on a failure: from_xml returns Err(err), the entry is dropped.
Fail(i, err, p) ==
    /\ status' = [status EXCEPT ![i] = err]
    /\ pos' = [pos EXCEPT ![i] = p]
    /\ Iterate(i)
    /\ UNCHANGED <<doc, variant, stream, entry, ret, obj, calls>>

\* read_event(..)? on a tokenizer error.
ReadError(i) ==
    /\ Active(i)
    /\ Event(i).kind = "Err"
    /\ Fail(i, "Xml", After(i))

\* A slip: every text field is stored into title.
OnTextField_into_title(i) ==
    /\ Active(i)
    /\ Event(i).kind = "Start"
    /\ Event(i).name \in TextFields
    /\ LET r == atom_text(stream[i], After(i))
       IN IF r.res = "Ok"
          THEN Continue(i, [entry[i] EXCEPT !.title = unwrap_or_default(r.val)], r.pos)
          ELSE Fail(i, r.res, r.pos)

\* A slip: the field is assigned only when the element has text.
OnTextField_if_some(i) ==
    /\ Active(i)
    /\ Event(i).kind = "Start"
    /\ Event(i).name \in TextFields
    /\ LET r == atom_text(stream[i], After(i))
       IN IF r.res = "Ok"
          THEN Continue(i, IF r.val = None THEN entry[i]
                           ELSE [entry[i] EXCEPT ![Event(i).name] = r.val[1]], r.pos)
          ELSE Fail(i, r.res, r.pos)

\* b"id" | b"title" | b"updated" => entry.f = atom_text(reader)?.unwrap_or_default()
OnTextField(i) ==
    /\ Active(i)
    /\ Event(i).kind = "Start"
    /\ Event(i).name \in TextFields
    /\ LET r == atom_text(stream[i], After(i))
       IN IF r.res = "Ok"
          THEN Continue(i, [entry[i] EXCEPT ![Event(i).name] = unwrap_or_default(r.val)],
                        r.pos)
          ELSE Fail(i, r.res, r.pos)

\* A slip: the list is replaced by the new item instead of growing by it.
OnListField_overwrite(i) ==
    /\ Active(i)
    /\ Event(i).kind = "Start"
    /\ Event(i).name \in ListFields
    /\ LET r == list_decoder(stream[i], After(i), Event(i).name, Event(i).attrs)
       IN IF r.res = "Ok"
          THEN Continue(i, [entry[i] EXCEPT ![list_field(Event(i).name)] = <<r.val>>],
                        r.pos)
          ELSE Fail(i, r.res, r.pos)

\* A slip: the item is appended but the cursor is left where the child began,
\* so the child's body and end tag are read by the entry's own loop.
OnListField_body_unread(i) ==
    /\ Active(i)
    /\ Event(i).kind = "Start"
    /\ Event(i).name \in ListFields
    /\ LET r == list_decoder(stream[i], After(i), Event(i).name, Event(i).attrs)
       IN IF r.res = "Ok"
          THEN Continue(i, [entry[i] EXCEPT ![list_field(Event(i).name)] = Append(@, r.val)],
                        After(i))
          ELSE Fail(i, r.res, r.pos)

\* b"author" | b"category" | b"contributor" | b"link" => entry.fs.push(T::from_xml(..)?)
OnListField(i) ==
    /\ Active(i)
    /\ Event(i).kind = "Start"
    /\ Event(i).name \in ListFields
    /\ LET r == list_decoder(stream[i], After(i), Event(i).name, Event(i).attrs)
       IN IF r.res = "Ok"
          THEN Continue(i, [entry[i] EXCEPT ![list_field(Event(i).name)] = Append(@, r.val)],
                        r.pos)
          ELSE Fail(i, r.res, r.pos)

\* A slip: first-write-wins, the field is assigned only while it is absent.
OnOptTextField_first_wins(i) ==
    /\ Active(i)
    /\ Event(i).kind = "Start"
    /\ Event(i).name \in OptTextFields
    /\ LET r == atom_text(stream[i], After(i))
       IN IF r.res = "Ok"
          THEN Continue(i, IF entry[i][Event(i).name] # None THEN entry[i]
                           ELSE [entry[i] EXCEPT ![Event(i).name] = r.val], r.pos)
          ELSE Fail(i, r.res, r.pos)

\* A slip: a failure of atom_text is swallowed and the field left absent.
OnOptTextField_swallow(i) ==
    /\ Active(i)
    /\ Event(i).kind = "Start"
    /\ Event(i).name \in OptTextFields
    /\ LET r == atom_text(stream[i], After(i))
       IN Continue(i, [entry[i] EXCEPT ![Event(i).name] = IF r.res = "Ok" THEN r.val ELSE None],
                   r.pos)

\* A slip: the field is always present, an element without text giving Some("").
OnOptTextField_always_some(i) ==
    /\ Active(i)
    /\ Event(i).kind = "Start"
    /\ Event(i).name \in OptTextFields
    /\ LET r == atom_text(stream[i], After(i))
       IN IF r.res = "Ok"
          THEN Continue(i, [entry[i] EXCEPT ![Event(i).name] = Some(unwrap_or_default(r.val))],
                        r.pos)
          ELSE Fail(i, r.res, r.pos)

\* b"published" | b"summary" | b"rights" => entry.f = atom_text(reader)?
OnOptTextField(i) ==
    /\ Active(i)
    /\ Event(i).kind = "Start"
    /\ Event(i).name \in OptTextFields
    /\ LET r == atom_text(stream[i], After(i))
       IN IF r.res = "Ok"
          THEN Continue(i, [entry[i] EXCEPT ![Event(i).name] = r.val], r.pos)
          ELSE Fail(i, r.res, r.pos)

\* A slip: like an optional text field, the field is left absent when the
\* element decoded to nothing (a default Source, a Content with no text and no
\* src).
OnOptEntityField_empty_is_absent(i) ==
    /\ Active(i)
    /\ Event(i).kind = "Start"
    /\ Event(i).name \in OptEntityFields
    /\ LET r == IF Event(i).name = "source"
                THEN Source_from_xml(stream[i], After(i), Event(i).attrs)
                ELSE Content_from_xml(stream[i], After(i), Event(i).attrs)
       IN IF r.res = "Ok"
          THEN Continue(i, [entry[i] EXCEPT ![Event(i).name] =
                              IF Event(i).name = "source"
                              THEN (IF r.val = SourceDefault THEN None ELSE Some(r.val))
                              ELSE (IF r.val.value = None /\ r.val.src = None
                                    THEN None ELSE Some(r.val))],
                        r.pos)
          ELSE Fail(i, r.res, r.pos)

\* b"source" | b"content" => entry.f = Some(T::from_xml(reader, element.attributes())?)
OnOptEntityField(i) ==
    /\ Active(i)
    /\ Event(i).kind = "Start"
    /\ Event(i).name \in OptEntityFields
    /\ LET r == IF Event(i).name = "source"
                THEN Source_from_xml(stream[i], After(i), Event(i).attrs)
                ELSE Content_from_xml(stream[i], After(i), Event(i).attrs)
       IN IF r.res = "Ok"
          THEN Continue(i, [entry[i] EXCEPT ![Event(i).name] = Some(r.val)], r.pos)
          ELSE Fail(i, r.res, r.pos)

\* A slip: an unknown start tag is ignored like any other event, its subtree
\* left to the entry's own loop.
OnUnknown_not_skipped(i) ==
    /\ Active(i)
    /\ Event(i).kind = "Start"
    /\ Event(i).name \notin DispatchTable
    /\ Continue(i, entry[i], After(i))

\* A skip with no depth counter: it ends at the first end tag named name.
RECURSIVE read_to_first_end(_, _, _)
read_to_first_end(s, p, name) ==
    LET e == read_event(s, p)
        q == advance(s, p)
    IN CASE e.kind = "Eof" -> Result("Eof", None, q)
         [] e.kind = "Err" -> Result("Xml", None, q)
         [] e.kind = "End" /\ e.name = name -> Result("Ok", None, q)
         [] OTHER -> read_to_first_end(s, q, name)

\* A slip: the unknown element is skipped up to the first end tag of its name.
OnUnknown_shallow(i) ==
    /\ Active(i)
    /\ Event(i).kind = "Start"
    /\ Event(i).name \notin DispatchTable
    /\ LET r == read_to_first_end(stream[i], After(i), Event(i).name)
       IN IF r.res = "Ok"
          THEN Continue(i, entry[i], r.pos)
          ELSE Fail(i, r.res, r.pos)

\* n => reader.read_to_end(n, &mut Vec::new())?
OnUnknown(i) ==
    /\ Active(i)
    /\ Event(i).kind = "Start"
    /\ Event(i).name \notin DispatchTable
    /\ LET r == read_to_end(stream[i], After(i), Event(i).name)
       IN IF r.res = "Ok"
          THEN Continue(i, entry[i], r.pos)
          ELSE Fail(i, r.res, r.pos)

\* A slip: a title attribute of the entry's own start tag is stored as the title
\* of the entry returned.
OnEnd_applies_attrs(i) ==
    /\ Active(i)
    /\ Event(i).kind = "End"
    /\ status' = [status EXCEPT ![i] = "Ok"]
    /\ ret' = [ret EXCEPT ![i] =
                 Some(IF attr_opt(OwnAttrs(i), "title") = None THEN entry[i]
                      ELSE [entry[i] EXCEPT !.title = attr_opt(OwnAttrs(i), "title")[1]])]
    /\ pos' = [pos EXCEPT ![i] = After(i)]
    /\ Iterate(i)
    /\ UNCHANGED <<doc, variant, stream, entry, obj, calls>>

\* A slip: only the end tag named entry ends the loop, any other is ignored.
OnEnd_checks_name(i) ==
    /\ Active(i)
    /\ Event(i).kind = "End"
    /\ IF Event(i).name = "entry"
       THEN /\ status' = [status EXCEPT ![i] = "Ok"]
            /\ ret' = [ret EXCEPT ![i] = Some(entry[i])]
            /\ pos' = [pos EXCEPT ![i] = After(i)]
            /\ Iterate(i)
            /\ UNCHANGED <<doc, variant, stream, entry, obj, calls>>
       ELSE Continue(i, entry[i], After(i))

\* Event::End(_) => break, then Ok(entry)
OnEnd(i) ==
    /\ Active(i)
    /\ Event(i).kind = "End"
    /\ status' = [status EXCEPT ![i] = "Ok"]
    /\ ret' = [ret EXCEPT ![i] = Some(entry[i])]
    /\ pos' = [pos EXCEPT ![i] = After(i)]
    /\ Iterate(i)
    /\ UNCHANGED <<doc, variant, stream, entry, obj, calls>>

\* A slip: Event::Eof => break, the entry built so far is returned.
OnEof_break(i) ==
    /\ Active(i)
    /\ Event(i).kind = "Eof"
    /\ status' = [status EXCEPT ![i] = "Ok"]
    /\ ret' = [ret EXCEPT ![i] = Some(entry[i])]
    /\ pos' = [pos EXCEPT ![i] = After(i)]
    /\ Iterate(i)
    /\ UNCHANGED <<doc, variant, stream, entry, obj, calls>>

\* A slip: end of input is reported as malformed markup.
OnEof_as_xml(i) ==
    /\ Active(i)
    /\ Event(i).kind = "Eof"
    /\ Fail(i, "Xml", After(i))

\* Event::Eof => return Err(Error::Eof)
OnEof(i) ==
    /\ Active(i)
    /\ Event(i).kind = "Eof"
    /\ Fail(i, "Eof", After(i))

\* A slip: any other event ends the loop as an end tag does.
OnOther_break(i) ==
    /\ Active(i)
    /\ Event(i).kind \notin {"Start", "End", "Eof", "Err"}
    /\ status' = [status EXCEPT ![i] = "Ok"]
    /\ ret' = [ret EXCEPT ![i] = Some(entry[i])]
    /\ pos' = [pos EXCEPT ![i] = After(i)]
    /\ Iterate(i)
    /\ UNCHANGED <<doc, variant, stream, entry, obj, calls>>

\* A slip: an ignored event is not consumed, the cursor stays on it.
OnOther_not_consumed(i) ==
    /\ Active(i)
    /\ Event(i).kind \notin {"Start", "End", "Eof", "Err"}
    /\ Continue(i, entry[i], pos[i])

\* _ => {}
OnOther(i) ==
    /\ Active(i)
    /\ Event(i).kind \notin {"Start", "End", "Eof", "Err"}
    /\ Continue(i, entry[i], After(i))

Next ==
    \E i \in Calls :
        \/ ReadError(i)
        \/ OnTextField(i)
        \/ OnListField(i)
        \/ OnOptTextField(i)
        \/ OnOptEntityField(i)
        \/ OnUnknown(i)
        \/ OnEnd(i)
        \/ OnEof(i)
        \/ OnOther(i)

Spec == Init /\ [][Next]_vars

(***************************************************************************)
(* The accessors of Entry.  obj is an Entry built from Entry::default() by *)
(* setter calls; calls is the history of those calls.  An argument is the  *)
(* value handed to the setter before .into(): for an optional field either *)
(* a plain value (kind "value") or an Option (kind "option").              *)
(***************************************************************************)
Arg(k, v) == [kind |-> k, v |-> v]

\* V: Into<String> and V: Into<Vec<T>>: the same string, the same items.
into(arg) == arg.v

\* V: Into<Option<T>>: a plain value becomes Some of it, an Option is kept.
into_option(arg) == IF arg.kind = "value" THEN Some(arg.v) ELSE arg.v

StringArgs == {Arg("value", Str("Entry Title")), Arg("value", EmptyString)}
PersonArgs ==
    {Arg("value", <<>>),
     Arg("value", <<[name |-> Str("A"), uri |-> None, email |-> None],
                    [name |-> Str("A"), uri |-> None, email |-> None]>>)}
CategoryArgs ==
    {Arg("value", <<>>),
     Arg("value", <<[term |-> Str("x"), scheme |-> None, label |-> None]>>)}
LinkArgs ==
    {Arg("value", <<>>),
     Arg("value", <<[href |-> Str("h"), rel |-> None, mime_type |-> None,
                     hreflang |-> None, title |-> None, length |-> None]>>)}
OptStringArgs == {Arg("value", Str("2017-06-03T15:15:44-05:00")), Arg("option", None)}
OptSourceArgs == {Arg("value", SourceDefault), Arg("option", None)}
OptContentArgs ==
    {Arg("value", [shape |-> "text", content_type |-> None, src |-> None,
                   value |-> Some(Str("C"))]),
     Arg("option", None)}

\* The getters.
Entry_title(e) == e.title
Entry_id(e) == e.id
Entry_updated(e) == e.updated
Entry_authors(e) == e.authors
Entry_categories(e) == e.categories
Entry_contributors(e) == e.contributors
Entry_links(e) == e.links
Entry_published(e) == IF e.published = None THEN None ELSE Some(e.published[1])
Entry_source(e) == e.source
Entry_summary(e) == IF e.summary = None THEN None ELSE Some(e.summary[1])
Entry_rights(e) == IF e.rights = None THEN None ELSE Some(e.rights[1])
Entry_content(e) == e.content

\* A setter call: the Entry after it, and the call in the history.
SetterCall(f, arg, e) ==
    /\ Len(calls) < MaxSetterCalls
    /\ obj' = e
    /\ calls' = Append(calls, [field |-> f, arg |-> arg])
    /\ UNCHANGED <<doc, variant, stream, pos, entry, status, ret, iters>>

\* A slip: set_id stores into title.
Entry_set_id_into_title(arg) == SetterCall("id", arg, [obj EXCEPT !.title = into(arg)])

\* A slip: set_content also drops the summary.
Entry_set_content_drops_summary(arg) ==
    SetterCall("content", arg, [obj EXCEPT !.content = into_option(arg), !.summary = None])

Entry_set_title(arg) == SetterCall("title", arg, [obj EXCEPT !.title = into(arg)])
Entry_set_id(arg) == SetterCall("id", arg, [obj EXCEPT !.id = into(arg)])
Entry_set_updated(arg) == SetterCall("updated", arg, [obj EXCEPT !.updated = into(arg)])
Entry_set_authors(arg) == SetterCall("authors", arg, [obj EXCEPT !.authors = into(arg)])
Entry_set_categories(arg) ==
    SetterCall("categories", arg, [obj EXCEPT !.categories = into(arg)])
Entry_set_contributors(arg) ==
    SetterCall("contributors", arg, [obj EXCEPT !.contributors = into(arg)])
Entry_set_links(arg) == SetterCall("links", arg, [obj EXCEPT !.links = into(arg)])
Entry_set_published(arg) ==
    SetterCall("published", arg, [obj EXCEPT !.published = into_option(arg)])
Entry_set_source(arg) == SetterCall("source", arg, [obj EXCEPT !.source = into_option(arg)])
Entry_set_summary(arg) ==
    SetterCall("summary", arg, [obj EXCEPT !.summary = into_option(arg)])
Entry_set_rights(arg) == SetterCall("rights", arg, [obj EXCEPT !.rights = into_option(arg)])
Entry_set_content(arg) ==
    SetterCall("content", arg, [obj EXCEPT !.content = into_option(arg)])

\* An Entry::default() and setter calls on it, no decoding going on.
InitSetters == Start(<<>>, Variant("same", 0, ""))

NextSetters ==
    \/ \E arg \in StringArgs : Entry_set_title(arg)
    \/ \E arg \in StringArgs : Entry_set_id(arg)
    \/ \E arg \in StringArgs : Entry_set_updated(arg)
    \/ \E arg \in PersonArgs : Entry_set_authors(arg)
    \/ \E arg \in CategoryArgs : Entry_set_categories(arg)
    \/ \E arg \in PersonArgs : Entry_set_contributors(arg)
    \/ \E arg \in LinkArgs : Entry_set_links(arg)
    \/ \E arg \in OptStringArgs : Entry_set_published(arg)
    \/ \E arg \in OptSourceArgs : Entry_set_source(arg)
    \/ \E arg \in OptStringArgs : Entry_set_summary(arg)
    \/ \E arg \in OptStringArgs : Entry_set_rights(arg)
    \/ \E arg \in OptContentArgs : Entry_set_content(arg)

SpecSetters == InitSetters /\ [][NextSetters]_vars

(***************************************************************************)
(* What the claims speak of.                                               *)
(***************************************************************************)
Done(i) == status[i] # "running"

\* Call i reads the events of a whole document: DocOf(i).
WellFormed(i) == i = 1 \/ variant.kind \in {"same", "insert", "noise", "attrs"}
DocOf(i) ==
    IF i = 2 /\ variant.kind \in {"insert", "noise"} THEN InsertChild(doc, variant.at, variant.what)
    ELSE doc

\* The direct children of d named n, in document order.
ChildrenNamed(d, n) == {j \in 1..Len(d) : Frag(d[j]).name = n}
LastChildNamed(d, n) == CHOOSE j \in ChildrenNamed(d, n) : \A k \in ChildrenNamed(d, n) : k <= j
IsNamed(n, id) == Frag(id).name = n
ValuesNamed(d, n) ==
    LET ids == SelectSeq(d, LAMBDA id : IsNamed(n, id))
    IN [j \in 1..Len(ids) |-> Frag(ids[j]).value]

\* The entry returned by call i.
Returned(i) == ret[i][1]

\* C1: an unknown element (its content nested at will, recognized names
\* included) inserted between the direct children of an entry changes nothing:
\* the call on the stream with the insertion returns what the call on the
\* stream without it returns.
C1_UnknownInert ==
    (variant.kind = "insert" /\ Done(1) /\ Done(2))
        => (status[2] = status[1] /\ ret[2] = ret[1])

C1_Witness ==
    /\ variant.kind = "insert"
    /\ variant.what = "unknown_nested"
    /\ 0 < variant.at /\ variant.at < Len(doc)
    /\ status[2] = "Ok"
    /\ ret[2] = ret[1]
    /\ ret[2] # Some(EntryDefault)

\* C2: after a successful decode each of authors, categories, contributors,
\* links holds, in document order, the entities of the direct children named
\* author, category, contributor, link: one item per child, none merged with
\* or written over another.
C2_ListsInDocumentOrder ==
    \A i \in Calls :
        (status[i] = "Ok" /\ WellFormed(i)) =>
            \A n \in ListFields :
                /\ Len(Returned(i)[list_field(n)]) = Cardinality(ChildrenNamed(DocOf(i), n))
                /\ Returned(i)[list_field(n)] = ValuesNamed(DocOf(i), n)

C2_Witness ==
    /\ status[1] = "Ok"
    /\ Cardinality(ChildrenNamed(doc, "author")) = 2
    /\ Len(Returned(1).authors) = 2
    /\ Returned(1).authors[1] = Returned(1).authors[2]

\* The value an optional field takes from child id.
OptionalValue(n, id) ==
    IF n \in OptTextFields
    THEN (IF Frag(id).value = EmptyString THEN None ELSE Some(Frag(id).value))
    ELSE Some(Frag(id).value)

\* C3: when published, summary, rights, source or content occurs twice as a
\* direct child with different content, the decode succeeds and the field
\* holds the content of the later occurrence.
C3_LastWriteWins ==
    \A i \in Calls : \A n \in OptTextFields \cup OptEntityFields :
        (/\ Done(i) /\ WellFormed(i)
         /\ Cardinality(ChildrenNamed(DocOf(i), n)) >= 2)
        => /\ status[i] = "Ok"
           /\ Returned(i)[n] = OptionalValue(n, DocOf(i)[LastChildNamed(DocOf(i), n)])

C3_Witness ==
    /\ doc = <<"source_s", "source_t">>
    /\ status[1] = "Ok"
    /\ Returned(1).source = Some(Frag("source_t").value)
    /\ Frag("source_t").value # Frag("source_s").value

\* C4: a document cut short immediately before an end tag (the entry's own, a
\* recognized child's, or one of or inside an unknown element) decodes to the
\* failure Eof, and no entry is returned.
C4_TruncationIsEof ==
    (/\ variant.kind = "trunc"
     /\ Done(2)
     /\ stream[1][variant.at].kind = "End")
    => (status[2] = "Eof" /\ ret[2] = None)

C4_Witness ==
    /\ variant.kind = "trunc"
    /\ stream[1][variant.at] = EndEv("foo")
    /\ stream[1][variant.at - 1] = EndEv("title")
    /\ status[2] = "Eof"
    /\ entry[2] # EntryDefault

\* C5: a successful call on a whole document stopped on the entry's own end
\* tag and leaves the cursor one event past it.
C5_CursorPastOwnEnd ==
    \A i \in Calls :
        (status[i] = "Ok" /\ WellFormed(i)) =>
            /\ pos[i] = OwnEnd(DocOf(i)) + 1
            /\ stream[i][pos[i] - 1] = EndEv("entry")
            /\ stream[i][pos[i]] = StartEv("entry", NoAttrs)

C5_Witness ==
    /\ status[1] = "Ok"
    /\ Len(doc) = MaxChildren
    /\ \E j \in 1..Len(doc) : doc[j] = "category_y"
    /\ pos[1] = OwnEnd(doc) + 1

\* The end tag that balances the start tag at place p of stream s, counting
\* every start and end tag between them whatever its name.
RECURSIVE BalancingEnd(_, _, _)
BalancingEnd(s, q, depth) ==
    IF s[q].kind = "End" THEN (IF depth = 0 THEN q ELSE BalancingEnd(s, q + 1, depth - 1))
    ELSE IF s[q].kind = "Start" THEN BalancingEnd(s, q + 1, depth + 1)
    ELSE BalancingEnd(s, q + 1, depth)

\* Call i is about to read the start tag of an unknown child named like an
\* element nested inside it.
AtNestedUnknown(i) ==
    /\ Active(i)
    /\ WellFormed(i)
    /\ Event(i).kind = "Start"
    /\ Event(i).name \notin DispatchTable
    /\ \E q \in (pos[i] + 1)..(BalancingEnd(stream[i], pos[i] + 1, 0) - 1) :
          stream[i][q] = EndEv(Event(i).name)

\* C6: the skip of an unknown child that holds nested elements of its own name
\* ends at the end tag balancing its start tag, not at the first end tag of
\* that name: the loop goes on, with no field changed, at the event right after
\* the balancing end tag, and the call returns what the call on the document
\* without the element returns.
C6_SkipIsDepthCorrect ==
    /\ [][\A i \in Calls :
            AtNestedUnknown(i) =>
                /\ status'[i] = "running"
                /\ entry'[i] = entry[i]
                /\ pos'[i] = BalancingEnd(stream[i], pos[i] + 1, 0) + 1]_vars
    /\ []((variant.kind = "insert" /\ variant.what = "unknown_nested" /\ Done(2))
            => (status[2] = "Ok" /\ ret[2] = ret[1]))

C6_Witness ==
    /\ variant.kind = "insert"
    /\ variant.what = "unknown_nested"
    /\ variant.at < Len(doc)
    /\ status[2] = "running"
    /\ pos[2] = ChildStart(DocOf(2), variant.at + 2)
    /\ stream[2][pos[2] - 1] = EndEv("foo")
    /\ stream[2][pos[2] - 2] # EndEv("foo")

\* C7: a tokenizer error, wherever in the entry it comes (at the entry's own
\* level, inside a text element, a sub-decoded child or a skipped element),
\* makes from_xml return that failure having consumed nothing after it, and a
\* sub-decoder's Eof is returned as Eof; no entry is returned with a failure,
\* whatever was decoded before.
C7_FailurePassThrough ==
    /\ (variant.kind = "error" /\ Done(2))
          => (status[2] = "Xml" /\ pos[2] = variant.at + 1)
    /\ (variant.kind = "trunc" /\ Done(2))
          => (status[2] = "Eof" /\ pos[2] = variant.at)
    /\ \A i \in Calls : status[i] \in {"Eof", "Xml"} => ret[i] = None

C7_Witness ==
    /\ variant.kind = "error"
    /\ Len(doc) = MaxChildren
    /\ variant.at > ChildStart(doc, Len(doc))
    /\ variant.at < OwnEnd(doc)
    /\ status[2] = "Xml"
    /\ entry[2] # EntryDefault
    /\ ret[2] = None

\* The places of Tokenize(d) at the entry's own nesting level: the first event
\* of each child and the entry's end tag.
OwnLevel(d) == {ChildStart(d, j) : j \in 1..(Len(d) + 1)}

\* C8: end of input read at the entry's own level, between children or in
\* place of the entry's end tag, makes from_xml return Eof and no entry,
\* whatever was decoded before; a call that succeeds has read an end tag last.
C8_EofAtOwnLevel ==
    /\ (variant.kind = "trunc" /\ Done(2) /\ variant.at \in OwnLevel(doc))
          => (status[2] = "Eof" /\ ret[2] = None)
    /\ \A i \in Calls : status[i] = "Ok" => stream[i][pos[i] - 1].kind = "End"

C8_Witness ==
    /\ variant.kind = "trunc"
    /\ Len(doc) = MaxChildren
    /\ variant.at = ChildStart(doc, Len(doc))
    /\ status[2] = "Eof"
    /\ entry[2] # EntryDefault
    /\ ret[2] = None

\* C9: the scenario document (title T, id U, updated, an author named A, a
\* category with term x, unknownTag holding deep, published) decodes to those
\* values, with one author and one category, and every other field empty or
\* absent.
C9_Scenario ==
    (doc = ScenarioDoc /\ Done(1)) =>
        /\ status[1] = "Ok"
        /\ ret[1] = Some([title |-> <<"T">>, id |-> <<"U">>,
                          updated |-> <<"2024-01-01T00:00:00Z">>,
                          authors |-> <<[name |-> <<"A">>, uri |-> None, email |-> None]>>,
                          categories |-> <<[term |-> <<"x">>, scheme |-> None,
                                            label |-> None]>>,
                          contributors |-> <<>>, links |-> <<>>,
                          published |-> Some(<<"2023-12-31T00:00:00Z">>),
                          source |-> None, summary |-> None, rights |-> None,
                          content |-> None])

C9_Witness ==
    /\ doc = ScenarioDoc
    /\ status[1] = "Ok"
    /\ Len(Returned(1).authors) = 1
    /\ Returned(1).published # None

\* C10: a whole document always decodes, and title, id, updated each hold the
\* text of the last direct child of that name, the empty string when there is
\* no such child or the last one has no text.
C10_RequiredFieldsLenient ==
    \A i \in Calls :
        (Done(i) /\ WellFormed(i)) =>
            /\ status[i] = "Ok"
            /\ \A n \in TextFields :
                  Returned(i)[n] =
                      IF ChildrenNamed(DocOf(i), n) = {} THEN EmptyString
                      ELSE Frag(DocOf(i)[LastChildNamed(DocOf(i), n)]).value

C10_Witness ==
    /\ doc = <<"title_T", "title_0">>
    /\ status[1] = "Ok"
    /\ Returned(1).title = EmptyString
    /\ Returned(1).id = EmptyString

\* C11: after a successful decode each of published, summary, rights is absent
\* when the entry has no direct child of that name or the last one has no text,
\* and holds the text of the last one otherwise; it never holds an empty string.
C11_EmptyIsAbsent ==
    \A i \in Calls :
        (status[i] = "Ok" /\ WellFormed(i)) =>
            \A n \in OptTextFields :
                /\ Returned(i)[n] # Some(EmptyString)
                /\ Returned(i)[n] =
                      IF ChildrenNamed(DocOf(i), n) = {} THEN None
                      ELSE LET text == Frag(DocOf(i)[LastChildNamed(DocOf(i), n)]).value
                           IN IF text = EmptyString THEN None ELSE Some(text)

C11_Witness ==
    /\ doc = <<"summary_S", "summary_0">>
    /\ status[1] = "Ok"
    /\ Returned(1).summary = None
    /\ entry[1] = EntryDefault

\* C12: character data, comments and processing instructions read at the
\* entry's own level are ignored: a run of them inserted between the direct
\* children changes neither the outcome nor any field of the entry returned.
C12_OtherEventsIgnored ==
    (variant.kind = "noise" /\ Done(1) /\ Done(2))
        => (status[2] = status[1] /\ ret[2] = ret[1])

C12_Witness ==
    /\ variant.kind = "noise"
    /\ variant.what = "noise_run"
    /\ 0 < variant.at /\ variant.at < Len(doc)
    /\ pos[2] > pos[1]
    /\ status[2] = "Ok"
    /\ ret[2] = ret[1]
    /\ ret[2] # Some(EntryDefault)

EntryFields == DOMAIN EntryDefault

\* What getter f gives on Entry e.
Getter(f, e) ==
    CASE f = "title" -> Entry_title(e)
      [] f = "id" -> Entry_id(e)
      [] f = "updated" -> Entry_updated(e)
      [] f = "authors" -> Entry_authors(e)
      [] f = "categories" -> Entry_categories(e)
      [] f = "contributors" -> Entry_contributors(e)
      [] f = "links" -> Entry_links(e)
      [] f = "published" -> Entry_published(e)
      [] f = "source" -> Entry_source(e)
      [] f = "summary" -> Entry_summary(e)
      [] f = "rights" -> Entry_rights(e)
      [] f = "content" -> Entry_content(e)

LastCall == calls[Len(calls)]

\* C13: right after set_f(v), from Entry::default() or after earlier setter
\* calls, the getter f() gives v: the string or the items handed in, and for an
\* optional field Some(v) for a plain value v, the Option itself otherwise.
C13_SetterGetterRoundTrip ==
    calls # <<>> =>
        Getter(LastCall.field, obj) =
            IF LastCall.field \in OptTextFields \cup OptEntityFields
               /\ LastCall.arg.kind = "value"
            THEN <<LastCall.arg.v>>
            ELSE LastCall.arg.v

C13_Witness ==
    /\ Len(calls) = 3
    /\ calls[1].field = "published" /\ calls[1].arg.kind = "value"
    /\ calls[2].field = "id" /\ calls[2].arg.v # EmptyString
    /\ calls[3].field = "published" /\ calls[3].arg.kind = "option"
    /\ Entry_published(obj) = None
    /\ Entry_id(obj) = calls[2].arg.v

\* The fields set by the calls made so far.
FieldsSet == {calls[k].field : k \in 1..Len(calls)}

\* C19: a setter set_f changes field f only: every other field keeps the value
\* it had before the call, and a field no call has set holds its
\* Entry::default() value (empty string, empty list or absent).
C19_SetterFrame ==
    /\ [][calls' # calls =>
            \A g \in EntryFields \ {calls'[Len(calls')].field} : obj'[g] = obj[g]]_vars
    /\ [](\A g \in EntryFields \ FieldsSet : obj[g] = EntryDefault[g])

C19_Witness ==
    /\ Len(calls) = 2
    /\ calls[1].field = "summary" /\ calls[1].arg.kind = "value"
    /\ calls[2].field = "content" /\ calls[2].arg.kind = "value"
    /\ obj.summary = Some(calls[1].arg.v)
    /\ obj.content = Some(calls[2].arg.v)
    /\ obj.rights = None

\* C15: the attributes of the entry's own start tag, handed to from_xml by the
\* caller, change nothing: the call with attributes returns what the call
\* without them returns, and they are no error.
C15_OwnAttributesUnused ==
    (variant.kind = "attrs" /\ Done(1) /\ Done(2))
        => (status[2] = status[1] /\ ret[2] = ret[1])

C15_Witness ==
    /\ variant.kind = "attrs"
    /\ attr_opt(OwnAttrs(2), "title") = Some(Str("Z"))
    /\ OwnAttrs(1) = NoAttrs
    /\ Len(doc) = MaxChildren
    /\ status[2] = "Ok"
    /\ ret[2] = ret[1]
    /\ Returned(2).title # Str("Z")

\* C16: the loop stops with success on the first end tag it reads itself,
\* whatever its name: an end tag of another name between the children ends the
\* decode there with the entry built so far, and the call succeeds exactly when
\* it reads an end tag at its own level before end of input or an error.
C16_FirstOwnLevelEndStops ==
    /\ [][\A i \in Calls :
            (Active(i) /\ Event(i).kind = "End") =>
                /\ status'[i] = "Ok"
                /\ ret'[i] = Some(entry[i])
                /\ pos'[i] = pos[i] + 1]_vars
    /\ []((variant.kind = "stray" /\ Done(2)) =>
            /\ status[2] = "Ok"
            /\ pos[2] = ChildStart(doc, variant.at + 1) + 1
            /\ stream[2][pos[2] - 1] = EndEv("bogus")
            /\ ret[2] = Some(entry[2])
            /\ (variant.at = Len(doc) => ret[2] = ret[1]))
    /\ [](\A i \in Calls : status[i] = "Ok" => read_event(stream[i], pos[i] - 1).kind = "End")
    /\ []((variant.kind \in {"trunc", "error"} /\ Done(2)) => status[2] # "Ok")

C16_Witness ==
    /\ variant.kind = "stray"
    /\ 0 < variant.at /\ variant.at < Len(doc)
    /\ status[2] = "Ok"
    /\ stream[2][pos[2] - 1] = EndEv("bogus")
    /\ ret[2] # Some(EntryDefault)
    /\ ret[2] # ret[1]

\* C17: after a successful decode source (content) is present exactly when the
\* entry has a direct child named source (content), an empty one included, and
\* then holds the one value decoded from the last such child.
C17_EntityPresentIffOccurs ==
    \A i \in Calls :
        (status[i] = "Ok" /\ WellFormed(i)) =>
            \A n \in OptEntityFields :
                /\ Returned(i)[n] # None <=> ChildrenNamed(DocOf(i), n) # {}
                /\ Len(Returned(i)[n]) <= 1
                /\ ChildrenNamed(DocOf(i), n) # {} =>
                      Returned(i)[n] = Some(Frag(DocOf(i)[LastChildNamed(DocOf(i), n)]).value)

C17_Witness ==
    /\ doc = <<"source_s", "source_0">>
    /\ status[1] = "Ok"
    /\ Returned(1).source = Some(SourceDefault)
    /\ Returned(1).content = None

\* C18: on every finite stream (whole, cut short, with a tokenizer error or a
\* stray end tag) from_xml returns, with success or a failure: every iteration
\* of the loop that does not return moves the cursor forward by at least one
\* event, the cursor never passes the end of the stream, and so a call makes
\* at most as many iterations as its stream has events.
C18_Terminates ==
    /\ [][\A i \in Calls :
            iters'[i] # iters[i] =>
                /\ iters'[i] = iters[i] + 1
                /\ status'[i] = "running" => pos'[i] > pos[i]]_vars
    /\ [](\A i \in Calls :
            /\ pos[i] <= Len(stream[i]) + 1
            /\ iters[i] <= Len(stream[i])
            /\ iters[i] <= pos[i] - 1)

C18_Witness ==
    /\ variant.kind = "trunc"
    /\ Len(doc) = MaxChildren
    /\ \E j \in 1..Len(doc) : doc[j] = "unknown_nested"
    /\ \E j \in 1..Len(doc) : doc[j] = "text"
    /\ status[1] = "Ok"
    /\ status[2] = "Eof"
    /\ pos[2] = Len(stream[2]) + 1
    /\ iters[1] = MaxChildren + 1
    /\ iters[2] > 1

====
